---- MODULE Spec2Model ----
(***************************************************************************)
(* A model of the two components of tclembedding:                          *)
(*   - src/src/rag_optimizations.c : the MySQL UDF cosine_similarity with  *)
(*     its AVX2 / SSE4.1 / scalar kernels;                                 *)
(*   - src/generic/tclembedding.c  : the Tcl commands embedding::init_raw, *)
(*     embedding::compute (mean pooling + L2 normalisation) and            *)
(*     embedding::free.                                                    *)
(* Arithmetic is exact: floating-point values are integers on a grid and   *)
(* quotients by square roots are kept symbolically in canonical form.      *)
(***************************************************************************)
EXTENDS Integers, Sequences, FiniteSets, TLC

(***************************************************************************)
(* Bounds of the exploration.                                              *)
(***************************************************************************)
\* Largest declared operand length of the UDF, in float elements.
MaxElems == 9

\* Number of EmbeddingState blocks embedding::init_raw may allocate in a run.
MaxStates == 2

\* Longest token list passed to embedding::compute.
MaxTokens == 2

\* The value init_raw stores in state->embedding_dim.  The code stores 384;
\* the model explores the same loops with a small dimension.
EmbeddingDim == 2

\* sizeof(float), the scalar element size used by the alignment check.
SizeofFloat == 4

\* FLT_MIN.  UDF operand values are integers in units of sqrt(FLT_MIN), so a
\* squared magnitude is an integer multiple of FLT_MIN and FLT_MIN itself is 1.
FLT_MIN == 1

\* The floor 1e-9 of the L2 norm.  Activations are integers in units of 1e-9.
EPS == 1

NULL == "NULL"

(***************************************************************************)
(* Exact arithmetic helpers.                                               *)
(***************************************************************************)
Abs(x) == IF x < 0 THEN -x ELSE x

Sgn(x) == IF x < 0 THEN -1 ELSE IF x = 0 THEN 0 ELSE 1

RECURSIVE GCD(_, _)
GCD(x, y) == IF y = 0 THEN x ELSE GCD(y, x % y)

\* The value dot / (sqrtf(ma2) * sqrtf(mb2)), for ma2, mb2 > 0, kept as
\* <<sign, p, q>> with p/q the square of the value in lowest terms: two
\* values are equal exactly when their triples are.
CosQuotient(dot, ma2, mb2) ==
    LET num == dot * dot
        den == ma2 * mb2
        g   == GCD(den, num)
    IN  <<Sgn(dot), num \div g, den \div g>>

\* The float constants 0.0f and 1.0f in the same representation.
Zero == <<0, 0, 1>>
One == <<1, 1, 1>>

(***************************************************************************)
(* UDF operands.  A buffer holds one of a small family of contents; the    *)
(* content is defined at every index so that a read past the declared      *)
(* length (whatever lies behind the blob) is visible in the result.        *)
(***************************************************************************)
FillKinds == {"zero", "impulse", "ones", "alt", "ramp"}

Fill(kind, i) ==
    CASE kind = "zero"    -> 0
      [] kind = "impulse" -> IF i = 0 THEN 1 ELSE 0
      [] kind = "ones"    -> 1
      [] kind = "alt"     -> IF i % 2 = 0 THEN 1 ELSE -1
      [] kind = "ramp"    -> (i % 3) + 1

Buffers == {"A", "B"}

\* a[i] for the operand pointer p in memory m.
Load(m, p, i) == Fill(m[p], i)

(***************************************************************************)
(* Horizontal reductions, lane by lane.  A vector register is a function   *)
(* from lane number to value.                                              *)
(***************************************************************************)
\* Faulty variant of hsum_sse: the upper pair of lanes is never added in.
hsum_sse_low_pair(v) == v[0] + v[1]

hsum_sse(v) ==
    LET shuf1 == [l \in 0..3 |-> IF l % 2 = 0 THEN v[l + 1] ELSE v[l]]
        sums1 == [l \in 0..3 |-> v[l] + shuf1[l]]
        shuf2 == [l \in 0..3 |-> IF l < 2 THEN sums1[l + 2] ELSE shuf1[l]]
        sums2 == [l \in 0..3 |-> IF l = 0 THEN sums1[0] + shuf2[0] ELSE sums1[l]]
    IN  sums2[0]

hsum_avx(v) ==
    LET vlow  == [l \in 0..3 |-> v[l]]
        vhigh == [l \in 0..3 |-> v[l + 4]]
    IN  hsum_sse([l \in 0..3 |-> vlow[l] + vhigh[l]])

(***************************************************************************)
(* Kernels.  Each returns the three sums, the sequence of element indices  *)
(* it read (of both operands alike) and the returned value.                *)
(***************************************************************************)
\* The scalar accumulation loop: for (; i < n; i++) { dot += ...; }
RECURSIVE ScalarLoop(_, _, _, _, _, _)
ScalarLoop(m, a, b, n, i, acc) ==
    IF i < n
    THEN ScalarLoop(m, a, b, n, i + 1,
           [dot   |-> acc.dot + Load(m, a, i) * Load(m, b, i),
            ma2   |-> acc.ma2 + Load(m, a, i) * Load(m, a, i),
            mb2   |-> acc.mb2 + Load(m, b, i) * Load(m, b, i),
            reads |-> Append(acc.reads, i),
            i     |-> i + 1])
    ELSE acc

\* if (ma2 <= FLT_MIN || mb2 <= FLT_MIN) return 0.0f; return dot / (...)
Finish(acc) ==
    IF acc.ma2 <= FLT_MIN \/ acc.mb2 <= FLT_MIN
    THEN Zero
    ELSE CosQuotient(acc.dot, acc.ma2, acc.mb2)

\* One vector step of W lanes starting at element i.
VecStep(m, a, b, i, W, acc) ==
    [dot_v |-> [l \in 0..(W - 1) |-> acc.dot_v[l] + Load(m, a, i + l) * Load(m, b, i + l)],
     ma2_v |-> [l \in 0..(W - 1) |-> acc.ma2_v[l] + Load(m, a, i + l) * Load(m, a, i + l)],
     mb2_v |-> [l \in 0..(W - 1) |-> acc.mb2_v[l] + Load(m, b, i + l) * Load(m, b, i + l)],
     reads |-> acc.reads \o [k \in 1..W |-> i + k - 1],
     i     |-> i + W]

VecZero(W) ==
    [dot_v |-> [l \in 0..(W - 1) |-> 0],
     ma2_v |-> [l \in 0..(W - 1) |-> 0],
     mb2_v |-> [l \in 0..(W - 1) |-> 0],
     reads |-> <<>>,
     i     |-> 0]

\* for (; i <= n - 8; i += 8)
AvxGuard(i, n) == i <= n - 8

RECURSIVE AvxLoop(_, _, _, _, _)
AvxLoop(m, a, b, n, acc) ==
    IF AvxGuard(acc.i, n)
    THEN AvxLoop(m, a, b, n, VecStep(m, a, b, acc.i, 8, acc))
    ELSE acc

cosine_sim_avx(m, a, b, n) ==
    LET v   == AvxLoop(m, a, b, n, VecZero(8))
        acc == ScalarLoop(m, a, b, n, v.i,
                 [dot |-> hsum_avx(v.dot_v), ma2 |-> hsum_avx(v.ma2_v),
                  mb2 |-> hsum_avx(v.mb2_v), reads |-> v.reads, i |-> v.i])
    IN  [val |-> Finish(acc), reads |-> acc.reads,
         dot |-> acc.dot, ma2 |-> acc.ma2, mb2 |-> acc.mb2]

\* for (; i <= n - 4; i += 4)
SseGuard(i, n) == i <= n - 4

RECURSIVE SseLoop(_, _, _, _, _)
SseLoop(m, a, b, n, acc) ==
    IF SseGuard(acc.i, n)
    THEN SseLoop(m, a, b, n, VecStep(m, a, b, acc.i, 4, acc))
    ELSE acc

cosine_sim_sse(m, a, b, n) ==
    LET v   == SseLoop(m, a, b, n, VecZero(4))
        acc == ScalarLoop(m, a, b, n, v.i,
                 [dot |-> hsum_sse(v.dot_v), ma2 |-> hsum_sse(v.ma2_v),
                  mb2 |-> hsum_sse(v.mb2_v), reads |-> v.reads, i |-> v.i])
    IN  [val |-> Finish(acc), reads |-> acc.reads,
         dot |-> acc.dot, ma2 |-> acc.ma2, mb2 |-> acc.mb2]

cosine_sim_scalar(m, a, b, n) ==
    LET acc == ScalarLoop(m, a, b, n, 0,
                 [dot |-> 0, ma2 |-> 0, mb2 |-> 0, reads |-> <<>>, i |-> 0])
    IN  [val |-> Finish(acc), reads |-> acc.reads,
         dot |-> acc.dot, ma2 |-> acc.ma2, mb2 |-> acc.mb2]

\* The build-time selection of the kernel (#ifdef __AVX2__ / __SSE4_1__).
Tiers == {"AVX2", "SSE4_1", "SCALAR"}

Kernel(tier, m, a, b, n) ==
    CASE tier = "AVX2"   -> cosine_sim_avx(m, a, b, n)
      [] tier = "SSE4_1" -> cosine_sim_sse(m, a, b, n)
      [] tier = "SCALAR" -> cosine_sim_scalar(m, a, b, n)

\* if (a == b) return 1.0f; otherwise the selected kernel.
calculate_cosine(tier, m, a, b, n) ==
    IF a = b
    THEN [val |-> One, reads |-> <<>>, dot |-> 0, ma2 |-> 0, mb2 |-> 0]
    ELSE Kernel(tier, m, a, b, n)

\* Faulty variant of Aligned: only the first operand's length is checked.
AlignedFirstOnly(len) == len[1] % SizeofFloat = 0

\* Both operands' lengths are whole multiples of sizeof(float).
Aligned(len) ==
    /\ len[1] % SizeofFloat = 0
    /\ len[2] % SizeofFloat = 0

\* Faulty variant of CommonLen: the longer length is taken.
CommonLenMax(n1, n2) == IF n1 < n2 THEN n2 ELSE n1

\* int n = (n1 < n2) ? n1 : n2;
CommonLen(n1, n2) == IF n1 < n2 THEN n1 ELSE n2

\* The UDF entry point.  is_null and error are 0 on entry (set by the server)
\* and are only ever set to 1 here.  The (int) conversions of the element
\* counts preserve the value for every length explored here (far below 2^31).
cosine_similarity_fn(tier, m, ar, len) ==
    LET none == [is_null |-> 0, error |-> 0, val |-> Zero, reads |-> <<>>, n |-> 0]
    IN  IF ar[1] = NULL \/ ar[2] = NULL
        THEN [none EXCEPT !.is_null = 1]
        ELSE IF ~Aligned(len)
        THEN [none EXCEPT !.error = 1]
        ELSE LET n1 == len[1] \div SizeofFloat
                 n2 == len[2] \div SizeofFloat
                 n  == CommonLen(n1, n2)
             IN  IF n <= 0
                 THEN [none EXCEPT !.is_null = 1, !.n = n]
                 ELSE LET r == calculate_cosine(tier, m, ar[1], ar[2], n)
                      IN  [none EXCEPT !.val = r.val, !.reads = r.reads, !.n = n]

(***************************************************************************)
(* The Tcl extension: embedding::init_raw, embedding::compute,             *)
(* embedding::free.                                                        *)
(***************************************************************************)
TCL_OK == "TCL_OK"
TCL_ERROR == "TCL_ERROR"
\* The process died on a NULL dereference; no handler returns after it.
SEGV == "SEGV"

\* A fraction p/q, q >= 0, in lowest terms; a division by zero (inf or NaN
\* in the code) is kept as <<sign of p, 0>>.
Rat(p, q) ==
    IF q = 0 THEN <<Sgn(p), 0>>
    ELSE LET g == GCD(q, Abs(p))
         IN  <<p \div g, q \div g>>

\* Command names.  A handle is "embedding" followed by the state's address;
\* the other names carry 0.
HandleName(addr) == <<"embedding", addr>>
OwnCommands ==
    {<<"embedding::init_raw", 0>>, <<"embedding::compute", 0>>, <<"embedding::free", 0>>}

\* Tcl_GetCommandInfo: any existing command is found, the package's own three
\* (registered with a NULL ClientData) as well as the handles.
CommandExists(hs, name) ==
    \/ name \in OwnCommands
    \/ \E a \in hs : name = HandleName(a)

\* info.objClientData of an existing command: 0 stands for NULL.
ClientData(name) == IF name \in OwnCommands THEN 0 ELSE name[2]

\* The interpreter result as the handler leaves it: what its last
\* Tcl_SetObjResult (or Tcl's own error message) set, "none" if nothing.
NoResult == [kind |-> "none", elems |-> <<>>]
MsgResult == [kind |-> "msg", elems |-> <<>>]
ListResult(xs) == [kind |-> "list", elems |-> xs]
HandleResult(addr) == [kind |-> "handle", elems |-> <<addr>>]

\* Resource events of one call, in program order.
Acq(r) == <<"acq", r>>
Rel(r) == <<"rel", r>>

\* A failing ONNX call returns a status, which the handler releases at once.
StatusReleased == <<Acq("st"), Rel("st")>>

\* if (x) release(x);
RelIf(ptr, r) == IF ptr # NULL THEN <<Rel(r)>> ELSE <<>>

\* cleanup_early: the three token arrays.
CleanupEarly == <<Rel("input_ids"), Rel("attention"), Rel("type_ids")>>

\* Faulty variant of Cleanup: the output tensor is not released.
CleanupLeaksOutput(loc) ==
    RelIf(loc.sum_vec, "sum_vec") \o RelIf(loc.t1, "t1") \o RelIf(loc.t2, "t2")
    \o RelIf(loc.t3, "t3") \o RelIf(loc.memory_info, "memory_info") \o CleanupEarly

\* cleanup: the locals that are not NULL, then cleanup_early.
Cleanup(loc) ==
    RelIf(loc.sum_vec, "sum_vec") \o RelIf(loc.t1, "t1") \o RelIf(loc.t2, "t2")
    \o RelIf(loc.t3, "t3") \o RelIf(loc.t_out, "t_out")
    \o RelIf(loc.memory_info, "memory_info") \o CleanupEarly

\* floats[idx].  The tensor holds token_count * embedding_dim elements; the
\* code as written reads no other index.
Rd(fl, idx) == IF idx \in DOMAIN fl THEN fl[idx] ELSE 0

\* Faulty variant of PoolIndex: the matrix is indexed column-major.
PoolIndexTransposed(t, dim, i) == i * dim + t

\* floats[t * state->embedding_dim + i]
PoolIndex(t, dim, i) == t * dim + i

\* A. the summation loops; sum_vec is 1-indexed here (sum_vec[i] is at i + 1).
RECURSIVE SumLoop(_, _, _, _, _, _)
SumLoop(fl, tc, dim, t, i, acc) ==
    IF t >= tc THEN acc
    ELSE IF i >= dim THEN SumLoop(fl, tc, dim, t + 1, 0, acc)
    ELSE SumLoop(fl, tc, dim, t, i + 1,
           [sum_vec |-> [acc.sum_vec EXCEPT ![i + 1] = @ + Rd(fl, PoolIndex(t, dim, i))],
            reads   |-> Append(acc.reads, PoolIndex(t, dim, i))])

\* B. sum_vec[i] /= token_count
Mean(s, tc) == Rat(s, tc)

\* norm * norm after the loop: the sum of the squared means.
RECURSIVE SumSquares(_, _)
SumSquares(sums, k) == IF k = 0 THEN 0 ELSE sums[k] * sums[k] + SumSquares(sums, k - 1)

Norm2(sums, tc) == Rat(SumSquares(sums, Len(sums)), tc * tc)

\* Faulty variant of Divisor2: the floor is missing.
Divisor2NoFloor(n2) == n2

\* if (norm < 1e-9) norm = 1e-9;  on the squares, norm being >= 0.
Divisor2(n2) == IF n2[1] < EPS * EPS * n2[2] THEN <<EPS * EPS, 1>> ELSE n2

\* sum_vec[i] / norm as <<sign, p, q>>, p/q its square in lowest terms
\* (q = 0 marks a division by zero).
Component(mean, d2) ==
    IF d2[1] = 0 THEN <<Sgn(mean[1]), 1, 0>>
    ELSE LET r == Rat(mean[1] * mean[1] * d2[2], mean[2] * mean[2] * d2[1])
         IN  <<Sgn(mean[1]), r[1], r[2]>>

\* The places where embedding::compute can be made to fail.
ComputeFailPoints ==
    {"none", "CreateCpuMemoryInfo", "CreateTensor1", "CreateTensor2", "CreateTensor3",
     "Run", "GetTensorMutableData", "calloc"}

NoCall ==
    [cmd |-> "none", ret |-> "none", result |-> NoResult, log |-> <<>>,
     reads |-> <<>>, pooled |-> <<>>, div2 |-> <<0, 1>>, fault |-> "none",
     used |-> -1, objc |-> 0, handle |-> <<"none", 0>>, listOk |-> TRUE, tokens |-> 0,
     fail |-> "none", floats |-> <<>>]

\* 4. mean pooling and L2 normalisation, after a successful calloc.
PoolAndNormalize(o, loc, log, tc, dim, fl) ==
    LET acc    == SumLoop(fl, tc, dim, 0, 0,
                     [sum_vec |-> [i \in 1..dim |-> 0], reads |-> <<>>])
        means  == [i \in 1..dim |-> Mean(acc.sum_vec[i], tc)]
        d2     == Divisor2(Norm2(acc.sum_vec, tc))
        result == [i \in 1..dim |-> Component(means[i], d2)]
    IN  [o EXCEPT !.ret = TCL_OK, !.result = ListResult(result),
                  !.reads = acc.reads, !.pooled = means, !.div2 = d2,
                  !.log = log \o Cleanup(loc)]

\* Faulty variant of CallocFailed: the NULL check is missing and the handler goes on
\* to set a result list (of whatever the stores through NULL left).
CallocFailedUnchecked(o, loc, log) ==
    [o EXCEPT !.ret = TCL_OK, !.result = ListResult(<<>>), !.log = log \o Cleanup(loc)]

\* if (!sum_vec) { result = TCL_ERROR; goto cleanup; }
CallocFailed(o, loc, log) == [o EXCEPT !.log = log \o Cleanup(loc)]

\* An ONNX call failed: release the status, result = TCL_ERROR, goto cleanup.
FailCleanup(o, loc, log) == [o EXCEPT !.log = log \o StatusReleased \o Cleanup(loc)]

\* TclEmbedding_Compute_Cmd from the creation of the memory info on; g_ort is
\* not NULL here.  dim is state->embedding_dim (0 when state is NULL: unused).
ComputeBody(o, state, dim, tc, fail, fl) ==
    LET loc0 == [memory_info |-> NULL, t1 |-> NULL, t2 |-> NULL, t3 |-> NULL,
                 t_out |-> NULL, sum_vec |-> NULL]
        log0 == <<Acq("input_ids"), Acq("attention"), Acq("type_ids")>>
        loc1 == [loc0 EXCEPT !.memory_info = "set"]
        log1 == Append(log0, Acq("memory_info"))
        loc2 == [loc1 EXCEPT !.t1 = "set"]
        log2 == Append(log1, Acq("t1"))
        loc3 == [loc2 EXCEPT !.t2 = "set"]
        log3 == Append(log2, Acq("t2"))
        loc4 == [loc3 EXCEPT !.t3 = "set"]
        log4 == Append(log3, Acq("t3"))
        loc5 == [loc4 EXCEPT !.t_out = "set"]
        log5 == Append(log4, Acq("t_out"))
        loc6 == [loc5 EXCEPT !.sum_vec = "set"]
        log6 == Append(log5, Acq("sum_vec"))
    IN  IF fail = "CreateCpuMemoryInfo"
        THEN [o EXCEPT !.log = log0 \o StatusReleased \o CleanupEarly]
        ELSE IF fail = "CreateTensor1" THEN FailCleanup(o, loc1, log1)
        ELSE IF fail = "CreateTensor2" THEN FailCleanup(o, loc2, log2)
        ELSE IF fail = "CreateTensor3" THEN FailCleanup(o, loc3, log3)
        ELSE IF state = 0
        THEN [o EXCEPT !.ret = SEGV, !.fault = "state NULL", !.used = state, !.log = log4]
        ELSE LET u == [o EXCEPT !.used = state]
             IN  IF fail = "Run"
                 THEN [FailCleanup(u, loc4, log4) EXCEPT !.result = MsgResult]
                 ELSE IF fail = "GetTensorMutableData"
                 THEN [FailCleanup(u, loc5, log5) EXCEPT !.result = MsgResult]
                 ELSE IF fail = "calloc"
                 THEN CallocFailed(u, loc5, log5)
                 ELSE PoolAndNormalize(u, loc6, log6, tc, dim, fl)

\* Faulty variant of EmptyTokens: the empty-list shortcut is missing.
EmptyTokensUnchecked(tc) == FALSE

\* if (token_count == 0)
EmptyTokens(tc) == tc = 0

\* TclEmbedding_Compute_Cmd.  ort is g_ort, hs the addresses that have a
\* handle command, dims their embedding_dim fields; the inputs are objc, the
\* handle argument, whether the token list parses, its length, the call that
\* fails and the tensor the session returns.
TclEmbedding_Compute(ort, hs, dims, objc, handle, listOk, tc, fail, fl) ==
    LET o == [NoCall EXCEPT !.cmd = "compute", !.ret = TCL_ERROR, !.objc = objc,
                            !.handle = handle, !.listOk = listOk, !.tokens = tc,
                            !.fail = fail, !.floats = fl]
    IN  IF objc # 3 THEN [o EXCEPT !.result = MsgResult]
        ELSE IF ~CommandExists(hs, handle) THEN o
        ELSE IF ~listOk THEN [o EXCEPT !.result = MsgResult]
        ELSE IF EmptyTokens(tc) THEN [o EXCEPT !.ret = TCL_OK, !.result = ListResult(<<>>)]
        ELSE IF ort = NULL
        THEN [o EXCEPT !.ret = SEGV, !.fault = "g_ort NULL",
                       !.log = <<Acq("input_ids"), Acq("attention"), Acq("type_ids")>>]
        ELSE LET state == ClientData(handle)
                 dim   == IF state \in DOMAIN dims THEN dims[state] ELSE 0
             IN  ComputeBody(o, state, dim, tc, fail, fl)

\* The places where embedding::init_raw can be made to fail.
InitFailPoints ==
    {"none", "CreateEnv", "CreateSessionOptions", "SetIntraOpNumThreads",
     "SetSessionExecutionMode", "CreateSession"}

(***************************************************************************)
(* State.                                                                  *)
(***************************************************************************)
VARIABLES
    build,        \* the kernel tier this build of the UDF selects
    udf_pc,       \* "idle" before the UDF call, "done" after it
    udf_mem,      \* content of the operand buffers
    udf_args,     \* args->args: the operand pointers (NULL for SQL NULL)
    udf_lengths,  \* args->lengths: the declared byte lengths
    is_null,      \* *is_null after the call
    error,        \* *error after the call
    udf_val,      \* the returned double
    udf_reads,    \* element indices the call read, in order
    g_ort,        \* the global ONNX API pointer: NULL or "OrtApi"
    heap,         \* live EmbeddingState blocks: address -> embedding_dim
                  \* (0 while the block is not fully initialised)
    handles,      \* addresses that have a handle command in the interpreter
    nextAddr,     \* the next address ckalloc hands out
    call,         \* the last Tcl command invocation and what it did
    phase         \* "idle" / "called": used by SpecPool only

udfVars == <<build, udf_pc, udf_mem, udf_args, udf_lengths, is_null, error,
             udf_val, udf_reads>>
tclVars == <<g_ort, heap, handles, nextAddr, call, phase>>
vars == <<udfVars, tclVars>>

\* Declared byte lengths of a non-NULL operand.
ByteLengths == 0..(SizeofFloat * MaxElems + (SizeofFloat - 1))

\* The calls the server can make: each operand is SQL NULL (pointer NULL,
\* length 0) or a blob; two blob operands may be the same buffer.
UdfCalls ==
    {c \in [args : {<<NULL, NULL>>}, lengths : {<<0, 0>>}] : TRUE}
    \cup [args : {<<NULL, "B">>}, lengths : {<<0, l>> : l \in ByteLengths}]
    \cup [args : {<<"A", NULL>>}, lengths : {<<l, 0>> : l \in ByteLengths}]
    \cup [args : {<<"A", "B">>, <<"A", "A">>}, lengths : ByteLengths \X ByteLengths]

\* The UDF before its call.
UdfIdle ==
    /\ udf_pc = "idle"
    /\ udf_mem = [p \in Buffers |-> "zero"]
    /\ udf_args = <<NULL, NULL>>
    /\ udf_lengths = <<0, 0>>
    /\ is_null = 0
    /\ error = 0
    /\ udf_val = Zero
    /\ udf_reads = <<>>

\* The interpreter right after Tclembedding_Init: the three commands exist,
\* g_ort is still NULL, no state has been created.
TclLoaded ==
    /\ g_ort = NULL
    /\ heap = <<>>
    /\ handles = {}
    /\ nextAddr = 1
    /\ call = NoCall
    /\ phase = "idle"

cosine_similarity ==
    /\ udf_pc = "idle"
    /\ \E c \in UdfCalls, m \in [Buffers -> FillKinds] :
         LET r == cosine_similarity_fn(build, m, c.args, c.lengths)
         IN  /\ udf_mem' = m
             /\ udf_args' = c.args
             /\ udf_lengths' = c.lengths
             /\ is_null' = r.is_null
             /\ error' = r.error
             /\ udf_val' = r.val
             /\ udf_reads' = r.reads
    /\ udf_pc' = "done"
    /\ UNCHANGED <<build, tclVars>>

\* embedding::init_raw
TclEmbedding_Init_Cmd ==
    /\ call.ret # SEGV
    /\ \E objc \in {1, 2}, fail \in InitFailPoints :
         LET o == [NoCall EXCEPT !.cmd = "init_raw", !.objc = objc, !.fail = fail]
         IN  /\ g_ort' = "OrtApi"
             /\ IF objc # 2
                THEN /\ fail = "none"
                     /\ call' = [o EXCEPT !.ret = TCL_ERROR, !.result = MsgResult]
                     /\ UNCHANGED <<heap, handles, nextAddr>>
                ELSE /\ nextAddr <= MaxStates
                     /\ nextAddr' = nextAddr + 1
                     /\ IF fail = "CreateSession"
                        THEN /\ call' = [o EXCEPT !.ret = TCL_ERROR, !.result = MsgResult,
                                           !.log = <<Acq("state"), Rel("state")>>]
                             /\ UNCHANGED <<heap, handles>>
                        ELSE IF fail # "none"
                        THEN /\ call' = [o EXCEPT !.ret = TCL_ERROR, !.result = MsgResult,
                                           !.log = <<Acq("state")>>]
                             /\ heap' = heap @@ (nextAddr :> 0)
                             /\ UNCHANGED handles
                        ELSE /\ call' = [o EXCEPT !.ret = TCL_OK,
                                           !.result = HandleResult(nextAddr),
                                           !.log = <<Acq("state")>>]
                             /\ heap' = heap @@ (nextAddr :> EmbeddingDim)
                             /\ handles' = handles \cup {nextAddr}
    /\ UNCHANGED <<udfVars, phase>>

\* Values an activation can take, in units of 1e-9.
ActVals == {-1, 0, 1, 2}

\* The output tensors of a run over tc tokens: tc * EmbeddingDim floats.
Tensors(tc) == [0..(tc * EmbeddingDim - 1) -> ActVals]

\* The tensors with all elements equal.
FlatTensors(tc) == {[k \in 0..(tc * EmbeddingDim - 1) |-> c] : c \in ActVals}

\* Handle arguments: the package's own command names, every possible handle
\* name (created or not) and a name that is no command.
HandleArgs ==
    OwnCommands \cup {HandleName(a) : a \in 1..MaxStates} \cup {<<"nosuch", 0>>}

\* The invocations of embedding::compute, with the tensors T(tc) as the
\* session's possible outputs.
ComputeInputs(T(_)) ==
    LET in(objc, h, ok, tc, f, fl) ==
          [objc |-> objc, handle |-> h, listOk |-> ok, tc |-> tc, fail |-> f, fl |-> fl]
    IN  {in(2, <<"nosuch", 0>>, TRUE, 0, "none", <<>>)}
        \cup {in(3, h, FALSE, 0, "none", <<>>) : h \in HandleArgs}
        \cup {in(3, h, TRUE, 0, "none", <<>>) : h \in HandleArgs}
        \cup UNION {{in(3, h, TRUE, tc, f, <<>>) :
                        h \in HandleArgs, f \in ComputeFailPoints \ {"none"}} :
                    tc \in 1..MaxTokens}
        \cup UNION {{in(3, h, TRUE, tc, "none", fl) : h \in HandleArgs, fl \in T(tc)} :
                    tc \in 1..MaxTokens}

ComputeWith(in) ==
    call' = TclEmbedding_Compute(g_ort, handles, heap, in.objc, in.handle, in.listOk,
                                 in.tc, in.fail, in.fl)

\* embedding::compute
TclEmbedding_Compute_Cmd ==
    /\ call.ret # SEGV
    /\ \E in \in ComputeInputs(FlatTensors) : ComputeWith(in)
    /\ UNCHANGED <<udfVars, g_ort, heap, handles, nextAddr, phase>>

\* embedding::free
TclEmbedding_Free_Cmd ==
    /\ call.ret # SEGV
    /\ call' = [NoCall EXCEPT !.cmd = "free", !.ret = TCL_OK]
    /\ UNCHANGED <<udfVars, g_ort, heap, handles, nextAddr, phase>>

\* One embedding::compute on the handle of a created state, over every tensor.
Aggregate ==
    /\ phase = "idle"
    /\ \E tc \in 0..MaxTokens, f \in ComputeFailPoints :
         \E fl \in (IF f = "none" THEN Tensors(tc) ELSE {<<>>}) :
            call' = TclEmbedding_Compute(g_ort, handles, heap, 3, HandleName(1), TRUE,
                                         tc, f, fl)
    /\ phase' = "called"
    /\ UNCHANGED <<udfVars, g_ort, heap, handles, nextAddr>>

(***************************************************************************)
(* Specifications.                                                         *)
(***************************************************************************)
\* The Tcl package in use: any sequence of its three commands.
Init ==
    /\ build = "SCALAR"
    /\ UdfIdle
    /\ TclLoaded

Next ==
    \/ TclEmbedding_Init_Cmd
    \/ TclEmbedding_Compute_Cmd
    \/ TclEmbedding_Free_Cmd

Spec == Init /\ [][Next]_vars

\* The aggregation as a function of its input: the interpreter after one
\* successful embedding::init_raw, then one embedding::compute.
InitPool ==
    /\ build = "SCALAR"
    /\ UdfIdle
    /\ g_ort = "OrtApi"
    /\ heap = (1 :> EmbeddingDim)
    /\ handles = {1}
    /\ nextAddr = 2
    /\ call = [NoCall EXCEPT !.cmd = "init_raw", !.ret = TCL_OK, !.objc = 2,
                             !.result = HandleResult(1), !.log = <<Acq("state")>>]
    /\ phase = "idle"

NextPool == Aggregate

SpecPool == InitPool /\ [][NextPool]_vars

\* The UDF as a function of its input, for each build.
InitUdf ==
    /\ build \in Tiers
    /\ UdfIdle
    /\ TclLoaded

NextUdf == cosine_similarity

SpecUdf == InitUdf /\ [][NextUdf]_vars

(***************************************************************************)
(* Claims about the UDF (specification SpecUdf).                           *)
(***************************************************************************)
\* The element counts and the common length the claims speak of.
ElemsOf(len) == len \div SizeofFloat
MinElems == IF ElemsOf(udf_lengths[1]) < ElemsOf(udf_lengths[2])
            THEN ElemsOf(udf_lengths[1]) ELSE ElemsOf(udf_lengths[2])
Misaligned == udf_lengths[1] % 4 # 0 \/ udf_lengths[2] % 4 # 0
BothPresent == udf_args[1] # NULL /\ udf_args[2] # NULL
ErrorOutcome == error = 1 /\ is_null = 0
NullOutcome == is_null = 1 /\ error = 0
ValueOutcome == is_null = 0 /\ error = 0

\* Sum of f(0) + ... + f(n - 1).
RECURSIVE SumBelow(_, _)
SumBelow(f(_), n) == IF n <= 0 THEN 0 ELSE f(n - 1) + SumBelow(f, n - 1)

\* C1 as stated: the flags are never both set; a length that is not a
\* multiple of 4 always gives the error outcome; otherwise a common length
\* n <= 0 gives null; otherwise a value with neither flag.
C1_AsStated ==
    udf_pc = "done" =>
        /\ ~(is_null = 1 /\ error = 1)
        /\ IF Misaligned THEN ErrorOutcome
           ELSE IF MinElems <= 0 THEN NullOutcome
           ELSE ValueOutcome

\* C1 amended: the same classification for calls whose operands are both
\* present; a call with an SQL NULL operand gives the null outcome, whatever
\* the declared length of the other operand.
C1_Classification ==
    udf_pc = "done" =>
        /\ ~(is_null = 1 /\ error = 1)
        /\ IF ~BothPresent THEN NullOutcome
           ELSE IF Misaligned THEN ErrorOutcome
           ELSE IF MinElems <= 0 THEN NullOutcome
           ELSE ValueOutcome

\* A misaligned call with both operands present has ended in the error outcome.
C1_Witness ==
    /\ udf_pc = "done"
    /\ udf_args = <<"A", "B">>
    /\ udf_lengths = <<13, 8>>
    /\ ErrorOutcome

\* C2: a call that returns a value reads no element at index >= n =
\* min(n1, n2) of either operand, returns what the call with both lengths
\* cut to n elements returns, and returns the same for any other contents
\* that agree with the operands on the first n elements.
C2_CommonPrefix ==
    (udf_pc = "done" /\ ValueOutcome) =>
        /\ \A k \in 1..Len(udf_reads) : udf_reads[k] >= 0 /\ udf_reads[k] < MinElems
        /\ udf_val = cosine_similarity_fn(build, udf_mem, udf_args,
                        <<SizeofFloat * MinElems, SizeofFloat * MinElems>>).val
        /\ \A m2 \in [Buffers -> FillKinds] :
             (\A p \in {udf_args[1], udf_args[2]}, i \in 0..(MinElems - 1) :
                 Load(m2, p, i) = Load(udf_mem, p, i))
             => cosine_similarity_fn(build, m2, udf_args, udf_lengths).val = udf_val

\* Operands of 5 and 3 elements in distinct buffers were compared over
\* elements 0, 1, 2.
C2_Witness ==
    /\ udf_pc = "done"
    /\ udf_args = <<"A", "B">>
    /\ udf_lengths = <<20, 12>>
    /\ udf_mem = [p \in Buffers |-> IF p = "A" THEN "ramp" ELSE "alt"]
    /\ udf_reads = <<0, 1, 2>>
    /\ ValueOutcome

\* The operands hold equal values on the first MinElems elements.
EqualOperands ==
    \A i \in 0..(MinElems - 1) :
        Load(udf_mem, udf_args[1], i) = Load(udf_mem, udf_args[2], i)

SqMagnitude ==
    LET sq(i) == Load(udf_mem, udf_args[1], i) * Load(udf_mem, udf_args[1], i)
    IN  SumBelow(sq, MinElems)

\* C3: cosine_similarity(v, v) is 1.0 for every v of at least one element,
\* except 0.0 when the squared magnitude of v is at or below the floor;
\* for the same buffer passed twice and for distinct buffers of equal values.
C3_SelfSimilarity ==
    (udf_pc = "done" /\ BothPresent /\ ~Misaligned /\ MinElems >= 1 /\ EqualOperands)
        => /\ ValueOutcome
           /\ udf_val = IF SqMagnitude <= FLT_MIN THEN Zero ELSE One

\* C4: every kernel adds the three products of each index 0 .. n-1 exactly
\* once, in index order, applies the zero-magnitude rule and returns
\* dot / (sqrt(magA) * sqrt(magB)); so the three kernels return the same value.
C4_KernelsAgree ==
    (udf_pc = "done" /\ BothPresent /\ ~Misaligned /\ MinElems >= 1) =>
        LET a == udf_args[1]
            b == udf_args[2]
            n == MinElems
            ab(i) == Load(udf_mem, a, i) * Load(udf_mem, b, i)
            aa(i) == Load(udf_mem, a, i) * Load(udf_mem, a, i)
            bb(i) == Load(udf_mem, b, i) * Load(udf_mem, b, i)
            dot == SumBelow(ab, n)
            ma2 == SumBelow(aa, n)
            mb2 == SumBelow(bb, n)
            expected == IF ma2 <= FLT_MIN \/ mb2 <= FLT_MIN THEN Zero
                        ELSE CosQuotient(dot, ma2, mb2)
        IN  /\ \A t \in Tiers :
                 LET r == Kernel(t, udf_mem, a, b, n)
                 IN  /\ r.reads = [k \in 1..n |-> k - 1]
                     /\ r.dot = dot /\ r.ma2 = ma2 /\ r.mb2 = mb2
                     /\ r.val = expected
            /\ a # b => (udf_reads = [k \in 1..n |-> k - 1] /\ udf_val = expected)

\* The AVX2 build has compared two distinct 9-element operands: one 8-wide
\* chunk and a one-element tail.
C4_Witness ==
    /\ udf_pc = "done"
    /\ build = "AVX2"
    /\ udf_args = <<"A", "B">>
    /\ udf_lengths = <<36, 36>>
    /\ udf_mem = [p \in Buffers |-> IF p = "A" THEN "ramp" ELSE "alt"]
    /\ udf_reads = <<0, 1, 2, 3, 4, 5, 6, 7, 8>>
    /\ udf_val # Zero

(***************************************************************************)
(* Claims about embedding::compute.                                        *)
(***************************************************************************)
ComputeCalled == call.cmd = "compute"
Returned == call.ret \in {TCL_OK, TCL_ERROR}
\* The handle argument names a state created by a successful init_raw.
ValidHandle == \E a \in handles : call.handle = HandleName(a)
InLog(e) == \E k \in 1..Len(call.log) : call.log[k] = e
Count(e) == Cardinality({k \in 1..Len(call.log) : call.log[k] = e})
\* Position of the first occurrence of e in the log (0 if absent).
PosOf(e) == IF InLog(e) THEN CHOOSE k \in 1..Len(call.log) :
                                /\ call.log[k] = e
                                /\ \A j \in 1..(k - 1) : call.log[j] # e
            ELSE 0

\* C5: with a valid handle and an empty token list, embedding::compute
\* returns TCL_OK with an empty list as its result, having allocated
\* nothing and run no inference.
C5_EmptyTokens ==
    (ComputeCalled /\ call.objc = 3 /\ ValidHandle /\ call.listOk /\ call.tokens = 0)
        => /\ call.ret = TCL_OK
           /\ call.result = ListResult(<<>>)
           /\ call.log = <<>>
           /\ call.reads = <<>>

C5_Witness ==
    /\ ComputeCalled /\ call.objc = 3 /\ ValidHandle /\ call.listOk
    /\ call.tokens = 0
    /\ call.ret = TCL_OK

\* C6 as stated: every successful embedding::compute returns a vector of
\* exactly dim components, and the divisor of the normalisation is never zero.
C6_AsStated ==
    (ComputeCalled /\ call.ret = TCL_OK)
        => /\ call.result.kind = "list"
           /\ Len(call.result.elems) = EmbeddingDim
           /\ call.pooled # <<>> => call.div2[1] > 0

\* C6 amended: every successful embedding::compute over at least one token
\* returns a vector of exactly dim components; its divisor is never zero and
\* never below 1e-9.  (Over no token the result has no component.)
C6_DimComponents ==
    (ComputeCalled /\ call.ret = TCL_OK) =>
        IF call.tokens = 0
        THEN call.result = ListResult(<<>>)
        ELSE /\ call.result.kind = "list"
             /\ Len(call.result.elems) = heap[ClientData(call.handle)]
             /\ Len(call.result.elems) = EmbeddingDim
             /\ call.div2[1] > 0 /\ call.div2[2] > 0
             /\ call.div2[1] >= EPS * EPS * call.div2[2]
             /\ \A i \in 1..EmbeddingDim : call.result.elems[i][3] # 0

\* A pooled vector of norm 1/2 (below the floor, not zero) was divided by the
\* floor.
C6_Witness ==
    /\ ComputeCalled /\ call.ret = TCL_OK
    /\ call.tokens = 2
    /\ call.pooled = <<<<1, 2>>, <<0, 1>>>>
    /\ call.div2 = <<EPS * EPS, 1>>
    /\ Len(call.result.elems) = EmbeddingDim

\* C7: when the allocation of sum_vec fails, the command returns TCL_ERROR
\* and has set no vector as the interpreter's result.
C7_AllocationFailure ==
    (ComputeCalled /\ call.fail = "calloc" /\ InLog(Acq("t_out")))
        => /\ call.ret = TCL_ERROR
           /\ call.result = NoResult
           /\ call.pooled = <<>>

C7_Witness ==
    /\ ComputeCalled /\ call.fail = "calloc" /\ InLog(Acq("t_out"))
    /\ call.ret = TCL_ERROR

\* C8: for tokens >= 1 the pooled component i is the sum over all tokens t
\* of activations[t * dim + i] divided by tokens; every element of the
\* tokens * dim activations is read exactly once and no other index is read.
C8_MeanPooling ==
    (ComputeCalled /\ call.ret = TCL_OK /\ call.tokens >= 1) =>
        LET T   == call.tokens
            dim == EmbeddingDim
            col(i) == LET f(t) == call.floats[t * dim + i] IN SumBelow(f, T)
        IN  /\ Len(call.pooled) = dim
            /\ \A i \in 0..(dim - 1) :
                 /\ call.pooled[i + 1][1] * T = col(i) * call.pooled[i + 1][2]
                 /\ call.pooled[i + 1][2] > 0
            /\ Len(call.reads) = T * dim
            /\ \A k \in 0..(T * dim - 1) :
                 Cardinality({j \in 1..Len(call.reads) : call.reads[j] = k}) = 1

\* The matrix [[2, 0], [0, 2]] pooled to [1, 1], half of each row, and was
\* normalised to [sqrt(1/2), sqrt(1/2)].
C8_Witness ==
    /\ ComputeCalled /\ call.ret = TCL_OK
    /\ call.tokens = 2
    /\ call.floats = [k \in 0..3 |-> IF k \in {0, 3} THEN 2 ELSE 0]
    /\ call.pooled = <<<<1, 1>>, <<1, 1>>>>
    /\ call.result = ListResult(<<<<1, 1, 2>>, <<1, 1, 2>>>>)

ComputeResources ==
    {"input_ids", "attention", "type_ids", "memory_info", "t1", "t2", "t3", "t_out",
     "sum_vec", "st"}

\* C9: whenever embedding::compute returns, every resource the call
\* acquired has been released exactly once, after its acquisition, nothing
\* else has been released, and each input tensor was released before the
\* token array it wraps.
C9_ReleasedOnce ==
    (ComputeCalled /\ Returned) =>
        /\ \A k \in 1..Len(call.log) : call.log[k][2] \in ComputeResources
        /\ \A r \in ComputeResources :
             /\ Count(Acq(r)) <= 1
             /\ Count(Rel(r)) = Count(Acq(r))
             /\ InLog(Rel(r)) => PosOf(Acq(r)) < PosOf(Rel(r))
        /\ InLog(Rel("t1")) => PosOf(Rel("t1")) < PosOf(Rel("input_ids"))
        /\ InLog(Rel("t2")) => PosOf(Rel("t2")) < PosOf(Rel("attention"))
        /\ InLog(Rel("t3")) => PosOf(Rel("t3")) < PosOf(Rel("type_ids"))

\* GetTensorMutableData failed: the output tensor existed and was released.
C9_Witness ==
    /\ ComputeCalled /\ call.ret = TCL_ERROR
    /\ call.fail = "GetTensorMutableData"
    /\ InLog(Acq("t_out")) /\ InLog(Rel("t_out"))
    /\ InLog(Rel("type_ids"))

\* C10: embedding::compute never calls through g_ort while it is NULL, and
\* the state it dereferences is one created by a successful init_raw.
C10_OrtInitialised ==
    ComputeCalled =>
        /\ call.fault # "g_ort NULL"
        /\ call.used # -1 => call.used \in handles

====
